---- MODULE Spec2Model ----
(***************************************************************************)
(* A model of the iranseda harvesting pipeline, from the crawled item     *)
(* list onwards: the retry decorator, the per-item fetch-and-enrich step, *)
(* pass 1 with its thread pool, the sweep passes, the atomic CSV snapshot, *)
(* the success log and the error ledger.                                  *)
(* Delays are in tenths of a second (0.6 s = 6).                           *)
(***************************************************************************)
EXTENDS Naturals, Integers, Sequences, FiniteSets, TLC

\* ---------------------------------------------------------------- bounds
MaxId == 2
NumPages == 2
NumWorkers == 2
MaxLinks == 2
MaxMp3s == 3
MaxDownloads == 2

\* ------------------------------------------------------ program constants
max_attempts == 3
base_delay == 6
factor == 2
jitter == 2
MAX_SWEEPS == 2

Ids == 1..MaxId
Pages == 1..NumPages
Workers == 1..NumWorkers
MainThread == 0
Threads == {MainThread} \cup Workers

\* HTTP statuses a network attempt can return.
Status == {200, 404, 503}
\* The same for a listing page, with a status that only req_get retries.
ListingStatus == Status \cup {403}
\* random.uniform(0, jitter), in tenths of a second.
Jitter == 0..jitter

\* ------------------------------------------------------------------ data
\* A detail URL: its g query parameter and the listing page whose href it is.
NoUrl == [g |-> 0, v |-> 0]
Urls == [g : Ids, v : Pages]
NoItem == [id |-> 0, url |-> NoUrl]

\* Fetched content: what parse_details_page can extract from it.
NoHtml == [kind |-> "absent", title |-> "", attid |-> 0]
EmptyHtml == [kind |-> "empty", title |-> "", attid |-> 0]
HtmlDocs ==
    { [kind |-> "page", title |-> "X", attid |-> 7],
      [kind |-> "page", title |-> "", attid |-> 7],
      [kind |-> "page", title |-> "X", attid |-> 0],
      EmptyHtml }

\* Candidate media files of the API response, after get_mp3s_from_api.
Mp3A == [url |-> "a.mp3", size |-> 1000, bitrate |-> 64]
Mp3B == [url |-> "b.mp3", size |-> 2000, bitrate |-> 32]
Mp3Lists == { <<>>, <<Mp3A, Mp3B>> }

NoneStr == "None"
NaN == "nan"
NoPlayer == [g |-> 0, attid |-> 0]

\* Statistics of one logical fetch (one call of a decorated function).
NoNet ==
    [first |-> 0, status |-> 0, calls |-> 0, nsleeps |-> 0, prev |-> 0, last |-> 0]

Msg(kind, code) == [kind |-> kind, code |-> code]
NoMsg == Msg("", 0)

Result(status, audio_id, msg, parsed) ==
    [status |-> status, audio_id |-> audio_id, msg |-> msg, parsed |-> parsed]

NoRes == Result("none", 0, NoMsg, [AudioBook_ID |-> 0, Source_URL |-> NoUrl])

\* A thread: its position, the item it processes, the locals of the retry
\* wrappers it is in (attempt, delay; oattempt, odelay for the outer one).
IdleThread ==
    [pc |-> "idle", item |-> NoItem, idx |-> 0, fn |-> "none", attempt |-> 0,
     delay |-> 0, oattempt |-> 0, odelay |-> 0, net |-> NoNet,
     html |-> NoHtml, res |-> NoRes]

\* A file: whether it exists, whether its header line is written, its rows.
NoFile == [exists |-> FALSE, header |-> FALSE, rows |-> <<>>]
EmptyFile == [exists |-> TRUE, header |-> FALSE, rows |-> <<>>]


\* ------------------------------------------------------------ utils.retry
\* A classification that retries every client error.
raises_4xx(s) == s >= 400

\* The two decorated fetchers differ in the statuses they raise on.
req_get_raises(s) == s \in {429, 403, 408} \/ s >= 500

listing_get_raises(s) == s >= 500

Raises(fn, s) ==
    IF fn = "listing" THEN listing_get_raises(s) ELSE req_get_raises(s)

\* A backoff that does not grow.
SameDelay(delay) == delay

\* delay *= factor
NextDelay(delay) == delay * factor

\* A thread entering a decorated function: attempt = 0, delay = base_delay.
StartFetch(r, fn) ==
    [r EXCEPT !.pc = "net", !.fn = fn, !.attempt = 0, !.delay = base_delay,
              !.oattempt = 0, !.odelay = base_delay, !.net = NoNet]

\* except Exception in the wrapper of get_mp3s_from_api, around req_get.
OuterCatch(r) ==
    IF r.oattempt + 1 >= max_attempts
    THEN [r EXCEPT !.oattempt = @ + 1, !.pc = "exc"]
    ELSE [r EXCEPT !.oattempt = @ + 1, !.pc = "osleep"]

\* except Exception in the wrapper of req_get / _get.
InnerCatch(r) ==
    IF r.attempt + 1 >= max_attempts
    THEN IF r.fn = "api"
         THEN OuterCatch([r EXCEPT !.attempt = @ + 1])
         ELSE [r EXCEPT !.attempt = @ + 1, !.pc = "exc"]
    ELSE [r EXCEPT !.attempt = @ + 1, !.pc = "sleep"]

\* One requests.get with status s inside the retry loop.
Attempt(r, s) ==
    LET n == [r.net EXCEPT !.calls = @ + 1,
                           !.first = IF r.net.calls = 0 THEN s ELSE @,
                           !.status = s]
        r1 == [r EXCEPT !.net = n]
    IN  IF Raises(r.fn, s) THEN InnerCatch(r1) ELSE [r1 EXCEPT !.pc = "ret"]

\* time.sleep(delay + random.uniform(0, jitter)); delay *= factor
Sleep(r, j) ==
    [r EXCEPT !.pc = "net", !.delay = NextDelay(@),
              !.net = [@ EXCEPT !.nsleeps = @ + 1, !.prev = r.net.last,
                                !.last = r.delay + j]]

\* The same in the outer wrapper; fn is then called again from its start.
OuterSleep(r, j) ==
    [r EXCEPT !.pc = "net", !.odelay = NextDelay(@), !.attempt = 0,
              !.delay = base_delay,
              !.net = [@ EXCEPT !.nsleeps = @ + 1, !.prev = r.net.last,
                                !.last = r.odelay + j]]

\* -------------------------------------------------------- details.py helpers
\* text_or_none of the title element, the attid of the page, g of the URL.
parse_details_page(html, url) ==
    [AudioBook_ID |-> url.g,
     AudioBook_attID |-> html.attid,
     Book_Title |-> IF html.title = "" THEN NoneStr ELSE html.title,
     Source_URL |-> url,
     Player_Link |-> NoPlayer,
     FullBook_MP3_URL |-> NoneStr]

build_player_link(audio_id, attid) ==
    IF audio_id # 0 /\ attid # 0 THEN [g |-> audio_id, attid |-> attid] ELSE NoPlayer

\* ------------------------------------------------- pipeline._process_one
\* A key that puts the bitrate first.
BitrateFirst(a, b) ==
    a.bitrate < b.bitrate \/ (a.bitrate = b.bitrate /\ a.size < b.size)

\* The key of max(): (size, bitrate), compared lexicographically.
KeyLess(a, b) ==
    a.size < b.size \/ (a.size = b.size /\ a.bitrate < b.bitrate)

\* max() goes through the list and replaces its candidate by an element
\* whose key is strictly greater.
RECURSIVE MaxFrom(_, _, _)
MaxFrom(mp3s, k, best) ==
    IF k > Len(mp3s) THEN best
    ELSE MaxFrom(mp3s, k + 1, IF KeyLess(best, mp3s[k]) THEN mp3s[k] ELSE best)

\* max(mp3s, key=...) of a non-empty list.
Best(mp3s) == MaxFrom(mp3s, 2, mp3s[1])

\* No filter at all.
NoFilter(mp3s, min_size) == mp3s

\* [m for m in mp3s if (m.get("size") or 0) >= min_mp3_size_bytes]
FilterMp3s(mp3s, min_size) ==
    LET Keep(m) == m.size >= min_size IN SelectSeq(mp3s, Keep)

\* parsed after lines 80-87: identity fallback and player link.
ParsedOf(item, html) ==
    LET p0 == parse_details_page(html, item.url)
        p1 == IF p0.AudioBook_ID = 0 THEN [p0 EXCEPT !.AudioBook_ID = item.id] ELSE p0
    IN  [p1 EXCEPT !.Player_Link = build_player_link(p1.AudioBook_ID, p1.AudioBook_attID)]

\* A validation of the title alone.
TitleMissing(p) == p.Book_Title = NoneStr

\* Line 113: not parsed.get("Book_Title") or not parsed.get("Player_Link")
Incomplete(p) == p.Book_Title = NoneStr \/ p.Player_Link = NoPlayer

\* Lines 95-121: filter, skip, selection and the completeness validation.
Enrich(item, html, raw_mp3s, config) ==
    LET parsed == ParsedOf(item, html)
        mp3s == FilterMp3s(raw_mp3s, config.min_mp3_size_bytes)
        p2 == IF mp3s # <<>>
              THEN [parsed EXCEPT !.FullBook_MP3_URL = Best(mp3s).url]
              ELSE [parsed EXCEPT !.FullBook_MP3_URL = NoneStr]
    IN  IF config.require_full_mp3 /\ mp3s = <<>>
        THEN Result("skipped", item.id, Msg("no mp3 meets filters", 0), parsed)
        ELSE IF Incomplete(p2)
             THEN Result("err", item.id,
                         Msg("parsed record incomplete (missing title/player)", 0), p2)
             ELSE Result("ok", item.id, NoMsg, p2)

\* No except clause: the exception leaves _process_one and no result is returned.
Propagates(item, msg) == NoRes

\* except Exception as e: the item's own identity and URL, str(e) as reason.
Failure(item, msg) ==
    Result("err", item.id, msg, [AudioBook_ID |-> item.id, Source_URL |-> item.url])

\* How a decorated fetcher ended: it returned a response ("ret") or it
\* raised after its last attempt ("exc"), and the last status it saw.
OutcomeOf(r) == [pc |-> r.pc, status |-> r.net.status]

\* str(e) of the exception raised by req_get (lines 35 and 37 of details.py).
RaisedMsg(status) ==
    IF status \in {429, 403, 408} THEN Msg("retryable status", status)
    ELSE Msg("server error", status)

\* Lines 73-75: req_get raised, or the response is not a 200.
FetchFailed(o) == o.pc = "exc" \/ o.status # 200

FetchFailure(item, o) ==
    IF o.pc = "exc" THEN Failure(item, RaisedMsg(o.status))
    ELSE Failure(item, Msg("HTTP", o.status))

\* Lines 90-94: the API is called only when identity and attid are known.
NeedsApi(item, html) ==
    ParsedOf(item, html).AudioBook_ID # 0 /\ ParsedOf(item, html).AudioBook_attID # 0

\* get_mp3s_from_api lines 165-181: [] unless the response is a 200 with JSON.
ApiMp3s(o) == IF o.status # 200 THEN {<<>>} ELSE Mp3Lists

\* Lines 90-123 once the API call ended with outcome o.
ApiResults(item, html, o, cfg) ==
    IF o.pc = "exc" THEN {Failure(item, RaisedMsg(o.status))}
    ELSE {Enrich(item, html, m, cfg) : m \in ApiMp3s(o)}

\* Lines 80-94 once html is known, for a thread that runs step by step.
AfterHtml(r, html, cfg) ==
    IF NeedsApi(r.item, html)
    THEN StartFetch([r EXCEPT !.html = html], "api")
    ELSE [r EXCEPT !.html = html, !.pc = "res",
                   !.res = Enrich(r.item, html, <<>>, cfg)]

\* A set that writes nothing.
NotStored(c, url, html) == c

\* DiskCache.set: the content is written under the key of the URL.
CacheSet(c, url, html) == [c EXCEPT ![url] = html]

\* DiskCache.get followed by "if not html".
CacheHit(c, url) == c[url].kind = "page"

\* ------------------------------------------------------------ files, CSV
\* csv.DictWriter renders None as the empty cell; other values by str().
Render(v) == IF v = NoneStr THEN "" ELSE v

\* pandas reads an empty cell, and the text of a not-a-number, as NaN.
ReadCell(c) == IF c \in {"", "nan", "None"} THEN NaN ELSE c

\* One row of books_csv (the model's subset of CSV_FIELDS).
Row(rec) ==
    [AudioBook_ID |-> rec.AudioBook_ID,
     AudioBook_attID |-> rec.AudioBook_attID,
     Book_Title |-> Render(rec.Book_Title),
     Source_URL |-> rec.Source_URL,
     Player_Link |-> rec.Player_Link,
     FullBook_MP3_URL |-> Render(rec.FullBook_MP3_URL)]

\* dict(r) of a row of pd.read_csv(books_csv).
ReadRow(row) ==
    [row EXCEPT !.Book_Title = ReadCell(@), !.FullBook_MP3_URL = ReadCell(@)]

\* list(merged.values()) as written by the DictWriter.
Rows(m) == [i \in DOMAIN m |-> Row(m[i])]

\* Lines 51-56: the rows of the prior dataset, keyed by AudioBook_ID.
LoadMerged(file) ==
    IF file.exists /\ file.header THEN [i \in DOMAIN file.rows |-> ReadRow(file.rows[i])]
    ELSE <<>>

\* A store that keeps the latest record only.
OnlyLatest(m, rec) == <<rec>>

\* A list that gets every record at its end.
AppendAlways(m, rec) == Append(m, rec)

\* merged[int(parsed["AudioBook_ID"])] = parsed on an insertion-ordered dict.
Upsert(m, rec) ==
    IF \E i \in DOMAIN m : m[i].AudioBook_ID = rec.AudioBook_ID
    THEN [i \in DOMAIN m |->
              IF m[i].AudioBook_ID = rec.AudioBook_ID THEN rec ELSE m[i]]
    ELSE Append(m, rec)

\* Writing the snapshot in place.
InPlacePath(path) == path

\* csv_path.with_suffix(".tmp")
with_suffix_tmp(path) == IF path = "books.csv" THEN "books.tmp" ELSE path

\* One entry of pending_errors / new_errors.
LedgerRow(res) ==
    [AudioBook_ID |-> res.audio_id, URL |-> res.parsed.Source_URL, Error |-> res.msg]

\* A ledger written with its header only.
HeaderOnly(rows) == [exists |-> TRUE, header |-> TRUE, rows |-> <<>>]

\* errors_csv opened with "w", header and rows written.
LedgerFile(rows) == [exists |-> TRUE, header |-> TRUE, rows |-> rows]

\* Lines 195-200: the ledger can be read and has a row.
LedgerReadable(file) == file.exists /\ file.header /\ file.rows # <<>>

LedgerIds(file) ==
    IF file.exists THEN { file.rows[i].AudioBook_ID : i \in DOMAIN file.rows } ELSE {}

\* ------------------------------------------------------------ initial data
ItemOf(i) == [id |-> i, url |-> [g |-> i, v |-> 1]]

\* The deduplicated listing results the run starts from.
PairLists == { [i \in 1..n |-> ItemOf(i)] : n \in 0..MaxId }

Configs ==
    { [min_mp3_size_bytes |-> 500, require_full_mp3 |-> FALSE],
      [min_mp3_size_bytes |-> 5000, require_full_mp3 |-> TRUE] }

FullHtml == [kind |-> "page", title |-> "X", attid |-> 7]

\* A record an earlier run stored for identity i.
PriorRecord(i) == Enrich(ItemOf(i), FullHtml, <<>>, [min_mp3_size_bytes |-> 0, require_full_mp3 |-> FALSE]).parsed

EmptyCache == [u \in Urls |-> NoHtml]

\* What an earlier run that stored the last identity has left behind it.
PriorBooks == [exists |-> TRUE, header |-> TRUE, rows |-> Rows(<<PriorRecord(MaxId)>>)]

PriorLog == [exists |-> TRUE, header |-> FALSE, rows |-> <<PriorRecord(MaxId)>>]

PriorCache == [EmptyCache EXCEPT ![ItemOf(MaxId).url] = FullHtml]

\* The ledger of an earlier run in which the first identity failed.
PriorLedger == LedgerFile(<<LedgerRow(Failure(ItemOf(1), Msg("HTTP", 404)))>>)

\* The files and the cache a run can start from: nothing at all; or the
\* traces of an earlier run that had no failure, whose sweep emptied its
\* ledger, or that ended with a failure left in its ledger.
PriorStates ==
    { [books |-> NoFile, jsonl |-> NoFile, errors |-> NoFile, cache |-> EmptyCache],
      [books |-> PriorBooks, jsonl |-> PriorLog, errors |-> NoFile, cache |-> PriorCache],
      [books |-> PriorBooks, jsonl |-> PriorLog, errors |-> LedgerFile(<<>>),
       cache |-> PriorCache],
      [books |-> PriorBooks, jsonl |-> PriorLog, errors |-> PriorLedger,
       cache |-> PriorCache] }

NoOutcomes == [i \in Ids |-> "none"]

VARIABLES
    pc,              \* position of the main thread in run_pipeline
    config,          \* min_mp3_size_bytes, require_full_mp3
    pairs,           \* the item list
    page,            \* crawl_taglist: the listing page being fetched
    out,             \* crawl_taglist: the (identity, URL) found so far
    probe,           \* a function called on its own: its argument and result
    upstream,        \* the outcome the upstream content gives each identity, if fixed
    run1,            \* history: the dataset as the first of two runs left it
    prev,            \* history: per pool thread, the item it last finished
    merged,          \* the keyed merge store, in insertion order
    fs,              \* the files: books.csv, books.tmp, errors.csv, books.jsonl
    cache,           \* DiskCache: URL -> content
    th,              \* the threads (0: main, 1..NumWorkers: pool)
    futs,            \* futs[i]: result of pairs[i], NoRes while not done
    nextq,           \* next index of pairs the pool hands to a worker
    taken,           \* indexes as_completed has yielded
    cur,             \* the result the main thread is handling
    aw,              \* locals of atomic_write_csv: path, rows, rows written
    success, failed, skipped,
    pending_errors, sweep, to_retry, pos, new_errors,
    crashed,         \* the process was killed
    outcomes,        \* history: outcome of each identity in the current pass
    okEver,          \* history: identities that returned ok in this run
    ledgerRead,      \* history: rows of the ledger read at the start of the sweep
    passes,          \* history: passes completed
    snapshots,       \* history: Rows(merged) at each upsert, and the prior dataset
    log0             \* history: the lines of the success log before the run

vars ==
    <<pc, config, pairs, page, out, probe, upstream, run1, prev, merged, fs, cache, th, futs, nextq, taken, cur, aw,
      success, failed, skipped, pending_errors, sweep, to_retry, pos, new_errors,
      crashed, outcomes, okEver, ledgerRead, passes, snapshots, log0>>

NoAw == [path |-> "", rows |-> <<>>]
NoProbe == [fn |-> "none", arg |-> <<>>, ret |-> <<>>]
NoRun == [done |-> FALSE, books |-> NoFile]
NoPrev == [w \in Workers |-> [idx |-> 0, slept |-> 0]]
AnyUpstream == [i \in Ids |-> NoRes]

\* The state at the start of run_pipeline, but for the listing crawl.
InitRun ==
    /\ config \in Configs
    /\ run1 = NoRun
    /\ prev = NoPrev
    /\ merged = <<>>
    /\ \E prior \in PriorStates :
           /\ fs = [p \in {"books.csv", "books.tmp", "errors.csv", "books.jsonl"} |->
                       CASE p = "books.csv" -> prior.books
                         [] p = "errors.csv" -> prior.errors
                         [] p = "books.jsonl" -> prior.jsonl
                         [] OTHER -> NoFile]
           /\ cache = prior.cache
    /\ th = [t \in Threads |-> IdleThread]
    /\ futs = <<>>
    /\ nextq = 1
    /\ taken = {}
    /\ cur = NoRes
    /\ aw = NoAw
    /\ success = 0 /\ failed = 0 /\ skipped = 0
    /\ pending_errors = <<>> /\ sweep = 0 /\ to_retry = <<>> /\ pos = 0
    /\ new_errors = <<>>
    /\ crashed = FALSE
    /\ outcomes = NoOutcomes
    /\ okEver = {}
    /\ ledgerRead = <<>>
    /\ passes = 0
    /\ snapshots = IF fs["books.csv"].exists THEN {fs["books.csv"].rows} ELSE {}
    /\ log0 = fs["books.jsonl"].rows

\* The run once crawl_taglist has returned a list without duplicates.
Init ==
    /\ pc = "load"
    /\ pairs \in PairLists
    /\ page = NumPages + 1
    /\ out = pairs
    /\ probe = NoProbe
    /\ upstream = AnyUpstream
    /\ InitRun

cfgVars == <<config, pairs, page, out, probe, upstream, run1, prev>>
cntVars == <<success, failed, skipped>>
sweepVars == <<sweep, to_retry, pos, new_errors>>
histVars == <<outcomes, okEver, ledgerRead, passes, snapshots, log0>>
poolVars == <<futs, nextq, taken>>

\* ------------------------------------------------ listing.crawl_taglist
\* The detail links a listing page can hold, as the g of each href in order.
LinkLists == UNION { [1..n -> Ids] : n \in 0..MaxLinks }

\* out.append((g, fix_url(href))) for each link of the page.
PageItems(links, p) ==
    [k \in DOMAIN links |-> [id |-> links[k], url |-> [g |-> links[k], v |-> p]]]

\* A merge that keeps every occurrence.
KeepAll(items) == items

RECURSIVE UniqueFrom(_, _, _)
UniqueFrom(items, k, unique) ==
    IF k > Len(items) THEN unique
    ELSE IF \E j \in DOMAIN unique : unique[j].id = items[k].id
         THEN UniqueFrom(items, k + 1, unique)
         ELSE UniqueFrom(items, k + 1, Append(unique, items[k]))

\* Lines 49-52: the first occurrence of each identity, in order.
Unique(items) == UniqueFrom(items, 1, <<>>)

crawlOnly ==
    <<config, probe, upstream, run1, prev, merged, fs, cache, poolVars, cur, aw, cntVars, pending_errors,
      sweepVars, crashed, histVars>>

\* Lines 33-35: the next page is requested through _get.
CrawlPage ==
    /\ pc = "crawl"
    /\ page <= NumPages
    /\ th[MainThread].pc = "idle"
    /\ th' = [th EXCEPT ![MainThread] = StartFetch(IdleThread, "listing")]
    /\ UNCHANGED <<pc, pairs, page, out, crawlOnly>>

\* requests.get inside the retry wrapper of _get.
CrawlAttempt ==
    /\ pc = "crawl"
    /\ th[MainThread].pc = "net"
    /\ \E s \in ListingStatus :
           th' = [th EXCEPT ![MainThread] = Attempt(th[MainThread], s)]
    /\ UNCHANGED <<pc, pairs, page, out, crawlOnly>>

\* The backoff sleep of the wrapper of _get.
CrawlBackoff ==
    /\ pc = "crawl"
    /\ th[MainThread].pc = "sleep"
    /\ \E j \in Jitter : th' = [th EXCEPT ![MainThread] = Sleep(th[MainThread], j)]
    /\ UNCHANGED <<pc, pairs, page, out, crawlOnly>>

\* Lines 36-47: a page that is not a 200 is logged and skipped; the links of
\* a 200 are added to out.
CrawlResponse ==
    /\ pc = "crawl"
    /\ th[MainThread].pc = "ret"
    /\ IF th[MainThread].net.status # 200
       THEN out' = out
       ELSE \E links \in LinkLists : out' = out \o PageItems(links, page)
    /\ page' = page + 1
    /\ th' = [th EXCEPT ![MainThread] = IdleThread]
    /\ UNCHANGED <<pc, pairs, crawlOnly>>

\* _get raised after its last attempt: nothing catches the exception in
\* crawl_taglist nor in run_pipeline (pipeline.py line 46).
CrawlRaise ==
    /\ pc = "crawl"
    /\ th[MainThread].pc = "exc"
    /\ pc' = "aborted"
    /\ UNCHANGED <<pairs, page, out, th, crawlOnly>>

\* Lines 48-53: the pages are done, the list is deduplicated and returned.
CrawlEnd ==
    /\ pc = "crawl"
    /\ page > NumPages
    /\ th[MainThread].pc = "idle"
    /\ pairs' = Unique(out)
    /\ pc' = "load"
    /\ UNCHANGED <<page, out, th, crawlOnly>>

\* ------------------------------------------------------ run_pipeline: start
\* Lines 49-59 and 126-144: load the prior dataset, open the success log for
\* appending, submit one future per item.
StartPass1 ==
    /\ pc = "load"
    /\ merged' = LoadMerged(fs["books.csv"])
    /\ fs' = [fs EXCEPT !["books.jsonl"] = IF @.exists THEN @ ELSE EmptyFile]
    /\ futs' = [i \in DOMAIN pairs |-> NoRes]
    /\ pc' = "pass1"
    /\ UNCHANGED <<cfgVars, cache, th, nextq, taken, cur, aw, cntVars, pending_errors,
                   sweepVars, crashed, histVars>>

\* ----------------------------------------------------- _process_one, steps
\* Lines 69-73: cache lookup; on a miss the thread enters req_get.
ProcStart(item, idx) ==
    LET r == [IdleThread EXCEPT !.item = item, !.idx = idx]
    IN  IF CacheHit(cache, item.url)
        THEN AfterHtml(r, cache[item.url], config)
        ELSE StartFetch(r, "detail")

threadOnly ==
    <<pc, cfgVars, merged, fs, cache, poolVars, cur, aw, cntVars, pending_errors,
      sweepVars, crashed, histVars>>

\* requests.get inside a retry wrapper: any status may come back.
NetAttempt(t) ==
    /\ th[t].pc = "net"
    /\ \E s \in Status : th' = [th EXCEPT ![t] = Attempt(th[t], s)]
    /\ UNCHANGED threadOnly

\* The backoff sleep of the wrapper of req_get / _get.
Backoff(t) ==
    /\ th[t].pc = "sleep"
    /\ \E j \in Jitter : th' = [th EXCEPT ![t] = Sleep(th[t], j)]
    /\ UNCHANGED threadOnly

\* The backoff sleep of the wrapper of get_mp3s_from_api.
OuterBackoff(t) ==
    /\ th[t].pc = "osleep"
    /\ \E j \in Jitter : th' = [th EXCEPT ![t] = OuterSleep(th[t], j)]
    /\ UNCHANGED threadOnly

\* Lines 73-94 after req_get returned or raised.
Fetched(t) ==
    /\ th[t].fn = "detail"
    /\ th[t].pc \in {"ret", "exc"}
    /\ LET r == th[t] IN
       IF FetchFailed(OutcomeOf(r))
       THEN /\ th' = [th EXCEPT ![t] = [r EXCEPT !.pc = "res",
                                          !.res = FetchFailure(r.item, OutcomeOf(r))]]
            /\ UNCHANGED cache
       ELSE \E html \in HtmlDocs :
               /\ cache' = CacheSet(cache, r.item.url, html)
               /\ th' = [th EXCEPT ![t] = AfterHtml(r, html, config)]
    /\ UNCHANGED <<pc, cfgVars, merged, fs, poolVars, cur, aw, cntVars, pending_errors,
                   sweepVars, crashed, histVars>>

\* get_mp3s_from_api after its req_get ended, then lines 95-123.
ApiDone(t) ==
    /\ th[t].fn = "api"
    /\ th[t].pc \in {"ret", "exc"}
    /\ \E res \in ApiResults(th[t].item, th[t].html, OutcomeOf(th[t]), config) :
           th' = [th EXCEPT ![t] = [@ EXCEPT !.pc = "res", !.res = res]]
    /\ UNCHANGED threadOnly

\* --------------------------------------------- _process_one, as one step
\* A retry wrapper run to its end: every way the attempts and sleeps can go.
FetchSucc(r) ==
    CASE r.pc = "net" -> { Attempt(r, s) : s \in Status }
      [] r.pc = "sleep" -> { Sleep(r, j) : j \in Jitter }
      [] r.pc = "osleep" -> { OuterSleep(r, j) : j \in Jitter }
      [] OTHER -> {r}

RECURSIVE FetchClosure(_)
FetchClosure(S) ==
    IF \A r \in S : r.pc \in {"ret", "exc"} THEN S
    ELSE FetchClosure(UNION { FetchSucc(r) : r \in S })

\* The outcomes of req_get(url) and of get_mp3s_from_api(id, attid).
DetailOutcomes ==
    { OutcomeOf(r) : r \in FetchClosure({StartFetch(IdleThread, "detail")}) }

ApiOutcomes ==
    { OutcomeOf(r) : r \in FetchClosure({StartFetch(IdleThread, "api")}) }

\* Lines 80-123 for a known html: every result the API call allows.
HtmlResults(item, html, cfg) ==
    IF NeedsApi(item, html)
    THEN UNION { ApiResults(item, html, o, cfg) : o \in ApiOutcomes }
    ELSE {Enrich(item, html, <<>>, cfg)}

\* _process_one(item): the results it can return, each with the cache it leaves.
process_one(item, c, cfg) ==
    IF CacheHit(c, item.url)
    THEN { [res |-> x, cache |-> c] : x \in HtmlResults(item, c[item.url], cfg) }
    ELSE UNION {
           IF FetchFailed(o)
           THEN {[res |-> FetchFailure(item, o), cache |-> c]}
           ELSE UNION { { [res |-> x, cache |-> CacheSet(c, item.url, html)] :
                            x \in HtmlResults(item, html, cfg) } : html \in HtmlDocs }
           : o \in DetailOutcomes }

\* ------------------------------------------------------------ pass 1: pool
\* A pool thread takes the next submitted item.
WorkerPick(w) ==
    /\ pc # "load"
    /\ sweep = 0
    /\ th[w].pc = "idle"
    /\ nextq <= Len(pairs)
    /\ th' = [th EXCEPT ![w] = [IdleThread EXCEPT !.pc = "run", !.item = pairs[nextq],
                                                  !.idx = nextq]]
    /\ nextq' = nextq + 1
    /\ UNCHANGED <<pc, cfgVars, merged, fs, cache, futs, taken, cur, aw, cntVars,
                   pending_errors, sweepVars, crashed, histVars>>

\* The thread runs _process_one to its end: the future is done.
WorkerRun(w) ==
    /\ th[w].pc = "run"
    /\ \E x \in process_one(th[w].item, cache, config) :
           /\ futs' = [futs EXCEPT ![th[w].idx] = x.res]
           /\ cache' = x.cache
    /\ th' = [th EXCEPT ![w] = IdleThread]
    /\ UNCHANGED <<pc, cfgVars, merged, fs, nextq, taken, cur, aw, cntVars,
                   pending_errors, sweepVars, crashed, histVars>>

\* The same in steps: the thread takes the item and starts _process_one.
WorkerTake(w) ==
    /\ pc # "load"
    /\ sweep = 0
    /\ th[w].pc = "idle"
    /\ nextq <= Len(pairs)
    /\ th' = [th EXCEPT ![w] = ProcStart(pairs[nextq], nextq)]
    /\ nextq' = nextq + 1
    /\ UNCHANGED <<pc, cfgVars, merged, fs, cache, futs, taken, cur, aw, cntVars,
                   pending_errors, sweepVars, crashed, histVars>>

\* _process_one returned in a pool thread: the future is done.
FutureDone(w) ==
    /\ th[w].pc = "res"
    /\ futs' = [futs EXCEPT ![th[w].idx] = th[w].res]
    /\ th' = [th EXCEPT ![w] = IdleThread]
    /\ UNCHANGED <<pc, cfgVars, merged, fs, cache, nextq, taken, cur, aw, cntVars,
                   pending_errors, sweepVars, crashed, histVars>>

\* ---------------------------------------------- outcome handling (main thread)
\* The rows as they were before the upsert.
StaleRows(m, rec) == Rows(m)

\* The rows handed to atomic_write_csv: list(merged.values()) after the upsert.
SnapshotRows(m, rec) == Rows(Upsert(m, rec))

\* status == "ok": count, upsert, then atomic_write_csv is entered with
\* list(merged.values()) (lines 148-150 and 226-228).
HandleOk(res) ==
    /\ success' = success + 1
    /\ merged' = Upsert(merged, res.parsed)
    /\ aw' = [path |-> "books.csv", rows |-> SnapshotRows(merged, res.parsed)]
    /\ pc' = "aw_open"
    /\ okEver' = okEver \cup {res.audio_id}
    /\ snapshots' = snapshots \cup {Rows(Upsert(merged, res.parsed))}
    /\ outcomes' = [outcomes EXCEPT ![res.audio_id] = "ok"]

\* Lines 145-176 for one future yielded by as_completed, up to the write.
Complete(i) ==
    /\ pc = "pass1"
    /\ i \in DOMAIN futs
    /\ i \notin taken
    /\ futs[i] # NoRes
    /\ taken' = taken \cup {i}
    /\ cur' = futs[i]
    /\ LET res == futs[i] IN
       IF res.status = "ok"
       THEN /\ HandleOk(res)
            /\ UNCHANGED <<failed, skipped, pending_errors>>
       ELSE /\ pending_errors' = Append(pending_errors, LedgerRow(res))
            /\ IF res.status = "skipped"
               THEN skipped' = skipped + 1 /\ UNCHANGED failed
               ELSE failed' = failed + 1 /\ UNCHANGED skipped
            /\ outcomes' = [outcomes EXCEPT ![res.audio_id] = res.status]
            /\ pc' = "throttle"
            /\ UNCHANGED <<success, merged, aw, okEver, snapshots>>
    /\ UNCHANGED <<cfgVars, fs, cache, th, futs, nextq, sweepVars, crashed,
                   ledgerRead, passes, log0>>

writeOnly ==
    <<cfgVars, merged, cache, th, poolVars, cur, cntVars, pending_errors, sweepVars,
      crashed, histVars>>

\* atomic_write_csv line 8: tmp.open("w") creates or truncates the file.
AWOpen ==
    /\ pc = "aw_open"
    /\ fs' = [fs EXCEPT ![with_suffix_tmp(aw.path)] = EmptyFile]
    /\ pc' = "aw_header"
    /\ UNCHANGED <<aw, writeOnly>>

\* Line 10: w.writeheader()
AWHeader ==
    /\ pc = "aw_header"
    /\ fs' = [fs EXCEPT ![with_suffix_tmp(aw.path)].header = TRUE]
    /\ pc' = "aw_rows"
    /\ UNCHANGED <<aw, writeOnly>>

\* Lines 11-12: the next row.
AWRow ==
    /\ pc = "aw_rows"
    /\ LET tmp == with_suffix_tmp(aw.path)
           n == Len(fs[tmp].rows)
       IN  /\ n < Len(aw.rows)
           /\ fs' = [fs EXCEPT ![tmp].rows = Append(@, aw.rows[n + 1])]
    /\ UNCHANGED <<pc, aw, writeOnly>>

\* Lines 13-14: flush, close, tmp.replace(csv_path).
AWReplace ==
    /\ pc = "aw_rows"
    /\ LET tmp == with_suffix_tmp(aw.path) IN
       /\ Len(fs[tmp].rows) >= Len(aw.rows)
       /\ fs' = IF tmp = aw.path THEN fs
                ELSE [fs EXCEPT ![aw.path] = fs[tmp], ![tmp] = NoFile]
    /\ pc' = "jsonl"
    /\ aw' = NoAw
    /\ UNCHANGED writeOnly

\* A file opened with "w": the line replaces the content.
TruncLine(file, line) == [exists |-> TRUE, header |-> file.header, rows |-> <<line>>]

\* A file opened with "a": created when missing, the line added at its end.
AppendLine(file, line) ==
    [exists |-> TRUE, header |-> file.header, rows |-> Append(file.rows, line)]

\* Lines 151-152 and 229-230: one line appended to the success log.
JsonlWrite ==
    /\ pc = "jsonl"
    /\ fs' = [fs EXCEPT !["books.jsonl"] = AppendLine(@, cur.parsed)]
    /\ pc' = "throttle"
    /\ UNCHANGED <<aw, writeOnly>>

\* Lines 176 and 241: the delay after an item's outcome is handled.
Throttle ==
    /\ pc = "throttle"
    /\ pc' = IF sweep = 0 THEN "pass1" ELSE "sweep_loop"
    /\ cur' = NoRes
    /\ UNCHANGED <<cfgVars, merged, fs, cache, th, poolVars, aw, cntVars,
                   pending_errors, sweepVars, crashed, histVars>>

\* Lines 178-190: the pool is drained; the ledger is written when non-empty.
Pass1End ==
    /\ pc = "pass1"
    /\ taken = DOMAIN futs
    /\ fs' = IF pending_errors # <<>>
             THEN [fs EXCEPT !["errors.csv"] = LedgerFile(pending_errors)]
             ELSE fs
    /\ sweep' = 1
    /\ passes' = 1
    /\ pc' = "sweep_start"
    /\ UNCHANGED <<cfgVars, merged, cache, th, poolVars, cur, aw, cntVars,
                   pending_errors, to_retry, pos, new_errors, crashed, outcomes,
                   okEver, ledgerRead, snapshots, log0>>

\* ------------------------------------------------------------------ sweeps
\* A sweep over the whole item list instead of the ledger.
ToRetryPairs(file) == pairs

\* A sweep over the ledger from its last row to its first.
LastRowFirst(file) ==
    [i \in DOMAIN file.rows |->
        [id |-> file.rows[Len(file.rows) + 1 - i].AudioBook_ID,
         url |-> file.rows[Len(file.rows) + 1 - i].URL]]

\* Lines 204-208: the (identity, URL) of each ledger row that has a URL.
ToRetry(file) ==
    LET Keep(r) == r.URL # NoUrl
        rows == SelectSeq(file.rows, Keep)
    IN  [i \in DOMAIN rows |-> [id |-> rows[i].AudioBook_ID, url |-> rows[i].URL]]

\* Lines 195-217: read the ledger; stop when it is missing or empty.
SweepStart ==
    /\ pc = "sweep_start"
    /\ IF ~LedgerReadable(fs["errors.csv"])
       THEN /\ pc' = "done"
            /\ UNCHANGED <<to_retry, pos, new_errors, outcomes, ledgerRead>>
       ELSE /\ to_retry' = ToRetry(fs["errors.csv"])
            /\ new_errors' = <<>>
            /\ pos' = 1
            /\ outcomes' = NoOutcomes
            /\ ledgerRead' = fs["errors.csv"].rows
            /\ pc' = "sweep_loop"
    /\ UNCHANGED <<cfgVars, merged, fs, cache, th, poolVars, cur, aw, cntVars,
                   pending_errors, sweep, crashed, okEver, passes, snapshots, log0>>

\* Line 219: _process_one is called for the next item, in the main thread.
SweepItem ==
    /\ pc = "sweep_loop"
    /\ pos <= Len(to_retry)
    /\ th[MainThread].pc = "idle"
    /\ th' = [th EXCEPT ![MainThread] = ProcStart(to_retry[pos], pos)]
    /\ UNCHANGED threadOnly

\* The same with _process_one run to its end in one step.
SweepRun ==
    /\ pc = "sweep_loop"
    /\ pos <= Len(to_retry)
    /\ th[MainThread].pc = "idle"
    /\ \E x \in process_one(to_retry[pos], cache, config) :
           /\ th' = [th EXCEPT ![MainThread] =
                        [IdleThread EXCEPT !.pc = "res", !.item = to_retry[pos],
                                           !.idx = pos, !.res = x.res]]
           /\ cache' = x.cache
    /\ UNCHANGED <<pc, cfgVars, merged, fs, poolVars, cur, aw, cntVars, pending_errors,
                   sweepVars, crashed, histVars>>

\* Lines 225-240 for the item's result, up to the write.
SweepHandle ==
    /\ pc = "sweep_loop"
    /\ th[MainThread].pc = "res"
    /\ th' = [th EXCEPT ![MainThread] = IdleThread]
    /\ cur' = th[MainThread].res
    /\ pos' = pos + 1
    /\ LET res == th[MainThread].res IN
       IF res.status = "ok"
       THEN /\ HandleOk(res)
            /\ UNCHANGED new_errors
       ELSE /\ new_errors' = Append(new_errors, LedgerRow(res))
            /\ outcomes' = [outcomes EXCEPT ![res.audio_id] = res.status]
            /\ pc' = "throttle"
            /\ UNCHANGED <<success, merged, aw, okEver, snapshots>>
    /\ UNCHANGED <<cfgVars, fs, cache, poolVars, failed, skipped, pending_errors,
                   sweep, to_retry, crashed, ledgerRead, passes, log0>>

\* A loop without the early stop of lines 250-252.
SweepBreaksLate(errs, i) == i >= MAX_SWEEPS

\* Lines 194 and 250-252: the loop ends when no error remains or the range
\* 1..MAX_SWEEPS is exhausted.
SweepBreaks(errs, i) == errs = <<>> \/ i >= MAX_SWEEPS

\* Lines 243-252: the ledger is rewritten with the remaining errors; the loop
\* stops when none remain or the range is exhausted.
SweepEnd ==
    /\ pc = "sweep_loop"
    /\ pos > Len(to_retry)
    /\ th[MainThread].pc = "idle"
    /\ fs' = [fs EXCEPT !["errors.csv"] = LedgerFile(new_errors)]
    /\ passes' = passes + 1
    /\ IF SweepBreaks(new_errors, sweep)
       THEN pc' = "done" /\ UNCHANGED sweep
       ELSE pc' = "sweep_start" /\ sweep' = sweep + 1
    /\ UNCHANGED <<cfgVars, merged, cache, th, poolVars, cur, aw, cntVars,
                   pending_errors, to_retry, pos, new_errors, crashed, outcomes,
                   okEver, ledgerRead, snapshots, log0>>

\* The process is killed at any point before the end of the run: no thread
\* takes another step.
Crash ==
    /\ pc \notin {"done", "crashed"}
    /\ crashed' = TRUE
    /\ pc' = "crashed"
    /\ th' = [t \in Threads |-> [th[t] EXCEPT !.pc = "dead"]]
    /\ UNCHANGED <<cfgVars, merged, fs, cache, poolVars, cur, aw, cntVars,
                   pending_errors, sweepVars, histVars>>

\* The main thread's steps outside _process_one.
MainStep ==
    \/ StartPass1
    \/ \E i \in 1..MaxId : Complete(i)
    \/ AWOpen
    \/ AWHeader
    \/ AWRow
    \/ AWReplace
    \/ JsonlWrite
    \/ Throttle
    \/ Pass1End
    \/ SweepStart
    \/ SweepHandle
    \/ SweepEnd

\* The run with each _process_one call as one step of its thread.
Next ==
    \/ MainStep
    \/ \E w \in Workers : WorkerPick(w)
    \/ \E w \in Workers : WorkerRun(w)
    \/ SweepRun

Spec == Init /\ [][Next]_vars

\* The run of a list of at most one item, with every network attempt and
\* every backoff sleep of _process_one as a step.
InitSteps == Init /\ Len(pairs) <= 1

NextSteps ==
    \/ MainStep
    \/ \E w \in Workers : WorkerTake(w)
    \/ \E w \in Workers : FutureDone(w)
    \/ SweepItem
    \/ \E t \in Threads : NetAttempt(t)
    \/ \E t \in Threads : Backoff(t)
    \/ \E t \in Threads : OuterBackoff(t)
    \/ \E t \in Threads : Fetched(t)
    \/ \E t \in Threads : ApiDone(t)

SpecSteps == InitSteps /\ [][NextSteps]_vars

\* The listing crawl at the start of the run, with every network attempt and
\* backoff sleep as a step.
InitCrawl ==
    /\ pc = "crawl"
    /\ pairs = <<>>
    /\ page = 1
    /\ out = <<>>
    /\ probe = NoProbe
    /\ upstream = AnyUpstream
    /\ InitRun

NextCrawl ==
    \/ CrawlPage
    \/ CrawlAttempt
    \/ CrawlBackoff
    \/ CrawlResponse
    \/ CrawlRaise
    \/ CrawlEnd

SpecCrawl == InitCrawl /\ [][NextCrawl]_vars

\* ------------------------------------------- _process_one on API results
\* The lists get_mp3s_from_api can return: up to MaxMp3s entries, named in
\* their order, of any size and bitrate (0 for a missing bitRate).
Mp3Names == <<"a.mp3", "b.mp3", "c.mp3", "d.mp3">>

Mp3Candidates ==
    UNION { [1..n -> [size : {400, 1000, 2000, 6000}, bitrate : {0, 32, 64}]] :
              n \in 0..MaxMp3s }

Named(c) == [k \in DOMAIN c |-> [url |-> Mp3Names[k], size |-> c[k].size,
                                 bitrate |-> c[k].bitrate]]

InitSelect ==
    /\ pc = "probe"
    /\ pairs = <<ItemOf(1)>>
    /\ page = NumPages + 1
    /\ out = pairs
    /\ probe \in { [fn |-> "_process_one", arg |-> Named(c), ret |-> NoRes] :
                     c \in Mp3Candidates }
    /\ upstream = AnyUpstream
    /\ InitRun

\* Lines 95-121 of _process_one for a complete page and the API results.
Select ==
    /\ pc = "probe"
    /\ probe.fn = "_process_one"
    /\ probe' = [probe EXCEPT !.ret = Enrich(pairs[1], FullHtml, probe.arg, config)]
    /\ pc' = "probed"
    /\ UNCHANGED <<config, pairs, page, out, upstream, run1, prev, merged, fs, cache, th,
                   poolVars, cur, aw, cntVars, pending_errors, sweepVars, crashed, histVars>>

NextSelect == Select

SpecSelect == InitSelect /\ [][NextSelect]_vars

\* ------------------------------------------------------------- two runs
\* Unchanged upstream content: each identity has one outcome, the same every
\* time its item is processed; it is one the cache of the start allows.
ResultsOf(item, c, cfg) ==
    IF CacheHit(c, item.url) THEN HtmlResults(item, c[item.url], cfg)
    ELSE UNION { IF FetchFailed(o) THEN {FetchFailure(item, o)}
                 ELSE UNION { HtmlResults(item, html, cfg) : html \in HtmlDocs }
                 : o \in DetailOutcomes }

RECURSIVE Upstreams(_, _, _)
Upstreams(n, c, cfg) ==
    IF n = 0 THEN {<<>>}
    ELSE { Append(u, r) : u \in Upstreams(n - 1, c, cfg),
                          r \in ResultsOf(ItemOf(n), c, cfg) }

InitTwice ==
    /\ pc = "load"
    /\ pairs \in PairLists
    /\ page = NumPages + 1
    /\ out = pairs
    /\ probe = NoProbe
    /\ InitRun
    /\ upstream \in Upstreams(MaxId, cache, config)

WorkerRunSame(w) ==
    /\ WorkerRun(w)
    /\ futs'[th[w].idx] = upstream[th[w].item.id]

SweepRunSame ==
    /\ SweepRun
    /\ th'[MainThread].res = upstream[to_retry[pos].id]

\* The first run has ended; run_pipeline is started again with the same
\* listing and configuration, on the files and the cache the first run left.
Rerun ==
    /\ pc = "done"
    /\ ~run1.done
    /\ run1' = [done |-> TRUE, books |-> fs["books.csv"]]
    /\ pc' = "load"
    /\ merged' = <<>>
    /\ futs' = <<>> /\ nextq' = 1 /\ taken' = {}
    /\ cur' = NoRes
    /\ aw' = NoAw
    /\ success' = 0 /\ failed' = 0 /\ skipped' = 0
    /\ pending_errors' = <<>> /\ sweep' = 0 /\ to_retry' = <<>> /\ pos' = 0
    /\ new_errors' = <<>>
    /\ outcomes' = NoOutcomes
    /\ okEver' = {}
    /\ ledgerRead' = <<>>
    /\ passes' = 0
    /\ snapshots' = IF fs["books.csv"].exists THEN {fs["books.csv"].rows} ELSE {}
    /\ log0' = fs["books.jsonl"].rows
    /\ UNCHANGED <<config, pairs, page, out, probe, upstream, prev, fs, cache, th, crashed>>

NextTwice ==
    \/ MainStep
    \/ \E w \in Workers : WorkerPick(w)
    \/ \E w \in Workers : WorkerRunSame(w)
    \/ SweepRunSame
    \/ Rerun

SpecTwice == InitTwice /\ [][NextTwice]_vars

\* ------------------------------------------- pass 1: pool threads, throttle
\* throttle() calls made so far in pass 1 (line 176): one by the main thread
\* at the end of the handling of each future as_completed has yielded.
Throttles == Cardinality(taken) - (IF cur # NoRes THEN 1 ELSE 0)

\* A pool thread ends _process_one and is free for the next work item; the
\* model remembers the item and the throttle calls made until then.
WorkerDone(w) ==
    /\ th[w].pc = "run"
    /\ \E x \in process_one(th[w].item, cache, config) :
           /\ futs' = [futs EXCEPT ![th[w].idx] = x.res]
           /\ cache' = x.cache
    /\ th' = [th EXCEPT ![w] = IdleThread]
    /\ prev' = [prev EXCEPT ![w] = [idx |-> th[w].idx, slept |-> Throttles]]
    /\ UNCHANGED <<pc, config, pairs, page, out, probe, upstream, run1, merged, fs,
                   nextq, taken, cur, aw, cntVars, pending_errors, sweepVars,
                   crashed, histVars>>

NextPool ==
    \/ MainStep
    \/ \E w \in Workers : WorkerPick(w)
    \/ \E w \in Workers : WorkerDone(w)
    \/ SweepRun

SpecPool == Init /\ [][NextPool]_vars

\* ------------------------------------------------ a run that finds no ledger
\* The run starts in a directory without errors.csv.
InitFresh == Init /\ ~fs["errors.csv"].exists

SpecFresh == InitFresh /\ [][Next]_vars

\* ------------------------------------------------ details.get_mp3s_from_api
\* A string is the sequence of its pieces; whitespace, "." and "/" are
\* pieces of their own, so that strip, startswith and lstrip act on it.
NoneUrl == <<NoneStr>>
NoSize == -1
BASE == <<"http", "s://book.iranseda.ir/">>
DownloadUrls ==
    { NoneUrl, <<>>,
      <<"http", "s://player.iranseda.ir/", "a.mp3">>,
      <<" ", ".", "/", "rel.mp3", " ">>,
      <<"http", "docs/", "b.mp3">> }

\* A download element of the response, an item, a response.
Downloads ==
    [extension : {"mp3", "MP3", "ogg"}, downloadUrl : DownloadUrls,
     fileSize : {NoSize, 12345}, bitRate : {64, 128}]
DownloadLists(n) == UNION { [1..k -> Downloads] : k \in 0..n }
ItemLists ==
    { <<>> }
    \cup { <<[FileID |-> 7, download |-> d]>> : d \in DownloadLists(MaxDownloads) }
    \cup { <<[FileID |-> 7, download |-> d], [FileID |-> 8, download |-> e]>> :
             d \in DownloadLists(1), e \in DownloadLists(1) }
Responses ==
    { [status |-> 200, json |-> TRUE, items |-> i] : i \in ItemLists }
    \cup { [status |-> 200, json |-> FALSE, items |-> <<>>],
           [status |-> 404, json |-> TRUE, items |-> <<>>] }

\* str.strip(): leading and trailing whitespace removed.
RECURSIVE strip(_)
strip(u) ==
    IF u = <<>> THEN u
    ELSE IF Head(u) = " " THEN strip(Tail(u))
    ELSE IF u[Len(u)] = " " THEN strip(SubSeq(u, 1, Len(u) - 1))
    ELSE u

\* str.lstrip("./"): leading "." and "/" removed.
RECURSIVE lstrip(_)
lstrip(u) ==
    IF u # <<>> /\ Head(u) \in {".", "/"} THEN lstrip(Tail(u)) ELSE u

\* urljoin(BASE, rel) for a relative path that starts with a name.
urljoin(base, rel) == base \o rel

\* Lines 24-27.
fix_url(u) ==
    LET s == strip(u) IN
    IF s # <<>> /\ Head(s) = "http" THEN s ELSE urljoin(BASE, lstrip(s))

\* str(x).lower()
Lower(x) == CASE x = "MP3" -> "mp3" [] x = NoneStr -> "none" [] OTHER -> x

\* The truth value of d.get("downloadUrl").
Truthy(u) == u # NoneUrl /\ u # <<>>

\* Lines 174-180: the entries of one item's downloads from index k on.
RECURSIVE DownloadEntries(_, _, _)
DownloadEntries(it, k, mp3s) ==
    IF k > Len(it.download) THEN mp3s
    ELSE LET d == it.download[k] IN
         DownloadEntries(it, k + 1,
             IF Lower(d.extension) = "mp3" /\ Truthy(d.downloadUrl)
             THEN Append(mp3s, [url |-> fix_url(d.downloadUrl),
                                bitrate |-> d.bitRate,
                                size |-> IF d.fileSize = NoSize THEN 0 ELSE d.fileSize,
                                attid |-> it.FileID])
             ELSE mp3s)

\* Line 173: the items in order.
RECURSIVE ItemEntries(_, _, _)
ItemEntries(items, n, mp3s) ==
    IF n > Len(items) THEN mp3s
    ELSE ItemEntries(items, n + 1, DownloadEntries(items[n], 1, mp3s))

\* Lines 162-181, given the response req_get returned.
get_mp3s_from_api(r) ==
    IF r.status # 200 THEN <<>>
    ELSE IF ~r.json THEN <<>>
    ELSE ItemEntries(r.items, 1, <<>>)

InitApi ==
    /\ pc = "probe"
    /\ pairs = <<ItemOf(1)>>
    /\ page = NumPages + 1
    /\ out = pairs
    /\ probe \in { [fn |-> "get_mp3s_from_api", arg |-> r, ret |-> <<>>] : r \in Responses }
    /\ upstream = AnyUpstream
    /\ InitRun

ApiParse ==
    /\ pc = "probe"
    /\ probe.fn = "get_mp3s_from_api"
    /\ probe' = [probe EXCEPT !.ret = get_mp3s_from_api(probe.arg)]
    /\ pc' = "probed"
    /\ UNCHANGED <<config, pairs, page, out, upstream, run1, prev, merged, fs, cache, th,
                   poolVars, cur, aw, cntVars, pending_errors, sweepVars, crashed, histVars>>

NextApi == ApiParse

SpecApi == InitApi /\ [][NextApi]_vars

\* The run when the process can be killed at any point.
NextCrash == Next \/ Crash

SpecCrash == Init /\ [][NextCrash]_vars

\* The threads are scheduled: a step that stays possible is taken.
FairSpec == Spec /\ WF_vars(Next)

\* ================================================================ properties
Ledger == fs["errors.csv"]

\* A pass has just ended: the main thread is between two passes or at the end.
BetweenPasses == pc \in {"sweep_start", "done"} /\ passes >= 1

\* The identities whose step returned skipped or err in the last pass.
FailedInPass == { i \in Ids : outcomes[i] \in {"skipped", "err"} }

\* C1: after every pass the ledger file holds exactly the identities whose
\* step returned skipped or err in that pass, whatever the file held when the
\* run started.
C1_LedgerIsExactlyThePassFailures ==
    BetweenPasses => LedgerIds(Ledger) = FailedInPass

\* C2: an identity whose step returned ok in some pass is in the ledger file
\* neither after that pass nor after any later pass of the run.
C2_OkIdentityAbsentFromLedger ==
    BetweenPasses => okEver \cap LedgerIds(Ledger) = {}

\* The orchestrator's state: PASS1, SWEEP (of number sweep) or DONE.
Phase ==
    CASE pc = "load" -> "INIT"
      [] pc = "done" -> "DONE"
      [] pc = "crashed" -> "CRASHED"
      [] sweep = 0 -> "PASS1"
      [] OTHER -> "SWEEP"

\* One step of the orchestrator, as the transition rule allows it.
OrchestratorStep ==
    /\ Phase = "INIT" => Phase' \in {"INIT", "PASS1"}
    /\ Phase = "PASS1" => \/ Phase' = "PASS1"
                          \/ Phase' = "SWEEP" /\ sweep' = 1
    /\ Phase = "DONE" => Phase' = "DONE" /\ sweep' = sweep
    /\ (Phase = "SWEEP" /\ pc = "sweep_start") =>
           IF Ledger.exists /\ Ledger.rows # <<>>
           THEN Phase' = "SWEEP" /\ sweep' = sweep
           ELSE Phase' = "DONE"
    /\ (Phase = "SWEEP" /\ pc # "sweep_start") =>
           \/ Phase' = "SWEEP" /\ sweep' = sweep /\ passes' = passes
           \/ /\ passes' = passes + 1
              /\ IF fs'["errors.csv"].rows = <<>> \/ sweep = MAX_SWEEPS
                 THEN Phase' = "DONE"
                 ELSE Phase' = "SWEEP" /\ sweep' = sweep + 1

\* C3: the orchestrator goes PASS1 -> SWEEP(1) -> ... -> DONE: PASS1 is always
\* followed by SWEEP(1); SWEEP(i) goes to DONE exactly when the ledger it reads
\* is empty, or it leaves no error, or i = MAX_SWEEPS, and to SWEEP(i+1)
\* otherwise; there are at most MAX_SWEEPS sweeps and 1 + MAX_SWEEPS passes,
\* and the run always reaches DONE.
C3_OrchestratorReachesDone ==
    /\ [][OrchestratorStep]_vars
    /\ [](sweep <= MAX_SWEEPS /\ passes <= 1 + MAX_SWEEPS)
    /\ <>(pc = "done")

\* The last sweep ran and left errors: DONE is reached because i = MAX_SWEEPS.
C3_DoneAfterLastSweep ==
    /\ pc = "done"
    /\ sweep = MAX_SWEEPS
    /\ passes = 1 + MAX_SWEEPS
    /\ Ledger.rows # <<>>

SeqIds(s) == { s[i].AudioBook_ID : i \in DOMAIN s }

\* C4: after a sweep the identities of the ledger are among those of the
\* ledger read at the start of that sweep, and the ledger has no more rows.
C4_LedgerNarrows ==
    (BetweenPasses /\ passes >= 2) =>
        /\ LedgerIds(Ledger) \subseteq SeqIds(ledgerRead)
        /\ Len(Ledger.rows) <= Len(ledgerRead)

\* A sweep resolved one of two errors and left the other.
C4_SweepResolvedOneOfTwo ==
    /\ BetweenPasses
    /\ passes >= 2
    /\ Len(ledgerRead) = 2
    /\ Len(Ledger.rows) = 1

Books == fs["books.csv"]

\* C5: at every point, a crash inside atomic_write_csv included, the snapshot
\* file is absent or holds the header and the rows of the store as of some
\* completed upsert (or the dataset it held before the run).
C5_SnapshotIsAlwaysComplete ==
    Books.exists => Books.header /\ Books.rows \in snapshots

\* The process was killed while the temporary file held the header and only
\* part of the rows; the previous snapshot is still in place.
C5_CrashedInsideWrite ==
    /\ crashed
    /\ Books.exists
    /\ fs["books.tmp"].exists
    /\ fs["books.tmp"].header
    /\ fs["books.tmp"].rows # <<>>
    /\ Len(fs["books.tmp"].rows) < Len(aw.rows)
    /\ Books.rows # aw.rows

InWrite == pc \in {"aw_open", "aw_header", "aw_rows"}

\* Every record of an ok future of pass 1 is in the store and in the snapshot.
OkFuturesStored ==
    \A i \in DOMAIN futs :
        futs[i].status = "ok" =>
            /\ \E k \in DOMAIN merged : merged[k] = futs[i].parsed
            /\ \E k \in DOMAIN Books.rows : Books.rows[k] = Row(futs[i].parsed)

\* The store and the files are touched only by steps that leave every pool
\* thread where it is.
SingleWriterStep ==
    (merged' # merged \/ fs' # fs \/ aw' # aw) =>
        /\ \A w \in Workers : th'[w] = th[w]
        /\ InWrite => merged' = merged

\* C6: under every interleaving of the pool's completions the upsert and the
\* write are done by one writer at a time, the write is given the rows of the
\* store, after each write the snapshot holds exactly the rows of the store,
\* and at the end of pass 1 every ok record is in the store and the snapshot.
C6_SingleWriterUpsertAndPersist ==
    /\ [][SingleWriterStep]_vars
    /\ [](InWrite => aw.rows = Rows(merged))
    /\ []((success > 0 /\ ~InWrite) =>
              Books.exists /\ Books.header /\ Books.rows = Rows(merged))
    /\ []((pc = "sweep_start" /\ passes = 1) => OkFuturesStored)

\* The main thread is inside the write of one record while another pool
\* thread has completed ok and its record waits for the writer.
C6_CompletionDuringWrite ==
    /\ InWrite
    /\ sweep = 0
    /\ Len(fs["books.tmp"].rows) >= 1
    /\ \E i \in DOMAIN futs : i \notin taken /\ futs[i].status = "ok"

Log == fs["books.jsonl"].rows

IsPrefix(s, u) == Len(s) <= Len(u) /\ SubSeq(u, 1, Len(s)) = s

\* The lines the log holds for the ok outcomes handled so far.
LinesDue == success - (IF pc \in {"aw_open", "aw_header", "aw_rows", "jsonl"} THEN 1 ELSE 0)

\* C7: the success log only grows at its end: each step leaves the earlier
\* content as a prefix, the content before the run included; each ok outcome
\* adds exactly one line, the record, and no other outcome adds any.
C7_LogIsAppendOnly ==
    /\ [][IsPrefix(Log, fs'["books.jsonl"].rows)]_vars
    /\ [](IsPrefix(log0, Log))
    /\ [](Len(Log) = Len(log0) + LinesDue)
    /\ []((pc = "throttle" /\ cur.status = "ok") => Log[Len(Log)] = cur.parsed)

\* A log that had a line before the run got one in pass 1 and one in a sweep.
C7_AppendedInPassAndSweep ==
    /\ log0 # <<>>
    /\ sweep >= 1
    /\ pc = "throttle"
    /\ cur.status = "ok"
    /\ Len(Log) >= Len(log0) + 2

\* The thread is in a decorated fetcher, after a network attempt.
AfterAttempt(t) == th[t].pc \in {"ret", "exc", "sleep", "osleep"} /\ th[t].net.calls >= 1

\* C8: a fetch whose first k attempts (k < max_attempts) fail with a retryable
\* status and whose attempt k + 1 returns 200 returns that response after
\* exactly k backoff sleeps, each longer than the one before for every jitter;
\* with 503, 503, 200 there are two sleeps and the second is the longer.
C8_BackoffSleepsGrow ==
    \A t \in Threads :
        (AfterAttempt(t) /\ th[t].net.status = 200 /\ th[t].net.calls <= max_attempts) =>
            /\ th[t].pc = "ret"
            /\ th[t].net.nsleeps = th[t].net.calls - 1
            /\ th[t].net.nsleeps >= 1 => th[t].net.last >= base_delay
            /\ th[t].net.nsleeps >= 2 => th[t].net.prev < th[t].net.last

\* req_get got 503, 503, 200.
C8_TwoFailuresThenOk ==
    \E t \in Threads :
        /\ th[t].fn = "detail"
        /\ th[t].pc = "ret"
        /\ th[t].net.first = 503
        /\ th[t].net.status = 200
        /\ th[t].net.calls = 3
        /\ th[t].net.nsleeps = 2

\* C9: every logical fetch makes at most max_attempts network attempts, and
\* when it raises it has made exactly that many.
C9_AtMostThreeAttempts ==
    \A t \in Threads :
        /\ th[t].net.calls <= max_attempts
        /\ th[t].pc = "exc" => th[t].net.calls = max_attempts

\* A status that is neither a success nor one req_get retries.
Fatal(s) == s >= 300 /\ s < 500 /\ s \notin {429, 403, 408}

\* The entries the current pass holds for the identity.
EntriesOf(id) ==
    LET errs == IF sweep = 0 THEN pending_errors ELSE new_errors
    IN  { k \in DOMAIN errs : errs[k].AudioBook_ID = id }

\* C10: a detail fetch that gets a fatal status (404) returns to its caller
\* after one network attempt and no sleep; the item's outcome is err, with the
\* status as reason, and the pass holds exactly one ledger entry for it.
C10_FatalStatusIsNotRetried ==
    /\ \A t \in Threads :
           (th[t].fn = "detail" /\ th[t].net.calls >= 1 /\ Fatal(th[t].net.first)) =>
               /\ th[t].net.calls = 1
               /\ th[t].net.nsleeps = 0
               /\ th[t].pc \in {"ret", "res"}
               /\ th[t].pc = "res" =>
                      th[t].res = Failure(th[t].item, Msg("HTTP", th[t].net.first))
    /\ (pc = "throttle" /\ cur.msg.kind = "HTTP") =>
           /\ cur.status = "err"
           /\ Cardinality(EntriesOf(cur.audio_id)) = 1
    /\ (pc = "sweep_start" /\ cur = NoRes) =>
           \A i \in Ids : outcomes[i] = "err" =>
               Cardinality({ k \in DOMAIN Ledger.rows : Ledger.rows[k].AudioBook_ID = i }) = 1

\* The 404 of an item of pass 1 was handled: its entry is in pending_errors.
C10_NotFoundHandled ==
    /\ pc = "throttle"
    /\ sweep = 0
    /\ cur.msg = Msg("HTTP", 404)
    /\ cur.status = "err"

\* An outcome _process_one returned: a status, and a reason unless it is ok.
Resolved(res) ==
    /\ res.status \in {"ok", "skipped", "err"}
    /\ res.audio_id \in Ids
    /\ res.status # "ok" => res.msg # NoMsg

\* The entries of pending_errors for an identity.
Pass1Entries(id) == { k \in DOMAIN pending_errors : pending_errors[k].AudioBook_ID = id }

\* C11: an error raised while one item is processed does not abort the run:
\* every handled outcome is a status with a reason, every failure of pass 1
\* has exactly one entry, pass 1 handles every item of the list and a sweep
\* every item it retries, and the run reaches its end.
C11_ItemErrorsDoNotAbort ==
    /\ [](\A i \in taken : Resolved(futs[i]))
    /\ [](pc = "throttle" => Resolved(cur))
    /\ [](passes >= 1 =>
              /\ taken = DOMAIN pairs
              /\ Len(pending_errors) = failed + skipped
              /\ success + failed + skipped >= Len(pairs)
              /\ \A i \in DOMAIN pairs :
                     Cardinality(Pass1Entries(pairs[i].id)) =
                         IF futs[i].status = "ok" THEN 0 ELSE 1)
    /\ []((BetweenPasses /\ passes >= 2) =>
              /\ pos = Len(to_retry) + 1
              /\ Len(new_errors) = Cardinality(FailedInPass))
    /\ <>(pc = "done")

\* In pass 1 an item failed after its retries were exhausted, and the record
\* of a later completion is being stored.
C11_OkHandledAfterExhaustedRetries ==
    /\ sweep = 0
    /\ pc = "aw_open"
    /\ \E k \in DOMAIN pending_errors : pending_errors[k].Error.kind = "server error"

\* C12: a failure of the listing on one page (a response that is not a 200,
\* or a server error that lasts through the retries of _get) does not end the
\* run: the page is skipped and the crawl goes on to the next page.
C12_ListingFailureSkipsPage ==
    /\ pc # "aborted"
    /\ th[MainThread].fn = "listing" => th[MainThread].pc # "exc"
    /\ pc = "load" => page = NumPages + 1

\* The index of the first occurrence of an identity in the concatenated
\* listing results.
FirstSeen(id) == CHOOSE k \in DOMAIN out : out[k].id = id /\ \A j \in 1..(k - 1) : out[j].id # id

\* C13: the list crawl_taglist returns holds every identity of the listing
\* results exactly once, with the URL of its first occurrence, the identities
\* in the order of their first occurrence over pages 1..pages.
C13_UniqueFirstSeen ==
    pc = "load" =>
        /\ \A k, l \in DOMAIN pairs : pairs[k].id = pairs[l].id => k = l
        /\ { pairs[k].id : k \in DOMAIN pairs } = { out[k].id : k \in DOMAIN out }
        /\ \A k \in DOMAIN pairs : pairs[k] = out[FirstSeen(pairs[k].id)]
        /\ \A k, l \in DOMAIN pairs :
               k < l => FirstSeen(pairs[k].id) < FirstSeen(pairs[l].id)
        /\ \A k \in DOMAIN pairs : \A j \in DOMAIN out :
               out[j].id = pairs[k].id => pairs[k].url.v <= out[j].url.v

\* The crawl returned two identities, one of them found on two pages.
C13_SameIdentityOnTwoPages ==
    /\ pc = "load"
    /\ Len(pairs) = 2
    /\ \E i, j \in DOMAIN out : out[i].id = out[j].id /\ out[i].url.v < out[j].url.v

\* The thread is inside req_get for the detail page of its item.
FetchingDetail(t) == th[t].fn = "detail" /\ th[t].pc \in {"net", "sleep", "ret", "exc"}

\* C14: when the cache holds an entry for an item's URL the step issues no
\* network fetch for that URL, in pass 1 and in every sweep: a thread is in
\* req_get for a detail URL only while the cache has no entry for it.
C14_CachedUrlIsNotFetched ==
    \A t \in Threads : FetchingDetail(t) => cache[th[t].item.url] = NoHtml

\* The results that pass the minimum-size filter, by their position.
Qualifying == { k \in DOMAIN probe.arg : probe.arg[k].size >= config.min_mp3_size_bytes }

\* C15: among the results that pass the minimum-size filter the one selected
\* as FullBook_MP3_URL has maximal size, among those of maximal size maximal
\* bitrate, and among those still tied it is the first; for 1000 (64) and
\* 2000 (32) with filter 500 it is b.mp3.
C15_BestIsLargestThenBitrateThenFirst ==
    (pc = "probed" /\ Qualifying # {} /\ probe.ret.status # "skipped") =>
        \E k \in Qualifying :
            /\ probe.ret.parsed.FullBook_MP3_URL = probe.arg[k].url
            /\ \A j \in Qualifying : probe.arg[j].size <= probe.arg[k].size
            /\ \A j \in Qualifying :
                   probe.arg[j].size = probe.arg[k].size =>
                       probe.arg[j].bitrate <= probe.arg[k].bitrate
            /\ \A j \in Qualifying :
                   (probe.arg[j].size = probe.arg[k].size
                        /\ probe.arg[j].bitrate = probe.arg[k].bitrate) => k <= j

\* a.mp3 of size 1000 and bitrate 64, b.mp3 of size 2000 and bitrate 32,
\* filter 500: b.mp3 is selected.
C15_LargerSizeWinsOverBitrate ==
    /\ pc = "probed"
    /\ config.min_mp3_size_bytes = 500
    /\ probe.arg = <<Mp3A, Mp3B>>
    /\ probe.ret.status = "ok"
    /\ probe.ret.parsed.FullBook_MP3_URL = "b.mp3"

NoMp3 == Msg("no mp3 meets filters", 0)

\* No result of the API in this model has the size the filter asks for.
NothingQualifies ==
    \A l \in Mp3Lists : \A k \in DOMAIN l : l[k].size < config.min_mp3_size_bytes

\* The entries of the current pass.
PassErrors == IF sweep = 0 THEN pending_errors ELSE new_errors

\* Handling a skipped outcome changes neither the store nor a file, and an
\* identity enters the store or the dataset only with an ok outcome.
SkippedStep ==
    /\ (cur' # cur /\ cur'.status = "skipped") => merged' = merged /\ fs' = fs
    /\ pc # "load" =>
           /\ SeqIds(merged') \ SeqIds(merged) \subseteq okEver'
           /\ SeqIds(fs'["books.csv"].rows) \ SeqIds(Books.rows) \subseteq okEver'

\* C16: with require_full_mp3 and no API result of the minimum size, the
\* item's outcome is skipped with the reason "no mp3 meets filters" in its
\* ledger entry; the store and the dataset are not changed for it, and the
\* item is not in the dataset unless the prior dataset had it.
C16_SkippedWhenNoMp3Qualifies ==
    /\ []((config.require_full_mp3 /\ NothingQualifies) =>
              /\ okEver = {}
              /\ pc = "throttle" =>
                     \/ cur.status = "skipped"
                     \/ cur.status = "err" /\ cur.msg.kind \in {"HTTP", "server error"})
    /\ []((pc = "throttle" /\ cur.status = "skipped") =>
              /\ config.require_full_mp3
              /\ cur.msg = NoMp3
              /\ PassErrors # <<>>
              /\ PassErrors[Len(PassErrors)] =
                     [AudioBook_ID |-> cur.audio_id, URL |-> cur.parsed.Source_URL,
                      Error |-> NoMp3])
    /\ [][SkippedStep]_vars

\* An item of pass 1 was skipped under filter 5000 with require_full_mp3; the
\* dataset of the earlier run is there and does not hold it.
C16_SkippedItemNotInDataset ==
    /\ pc = "throttle"
    /\ sweep = 0
    /\ cur.status = "skipped"
    /\ config.min_mp3_size_bytes = 5000
    /\ Books.exists
    /\ cur.audio_id \notin SeqIds(Books.rows)

IncompleteMsg == Msg("parsed record incomplete (missing title/player)", 0)

\* The outcome carries a record of the extractor with no title or no player
\* link (an outcome of the except clause carries identity and URL only).
LacksTitleOrPlayer(res) ==
    /\ "Book_Title" \in DOMAIN res.parsed
    /\ \/ res.parsed.Book_Title \in {NoneStr, ""}
       \/ res.parsed.Player_Link = NoPlayer

\* Every row of the store has a title and a player link.
StoreComplete ==
    \A k \in DOMAIN merged :
        /\ merged[k].Book_Title \notin {NoneStr, NaN, ""}
        /\ merged[k].Player_Link # NoPlayer

\* The ledger SWEEP(1) reads holds every item of pass 1 matching the test.
InLedgerForSweep1(Test(_)) ==
    (pc = "sweep_start" /\ sweep = 1) =>
        \A i \in DOMAIN futs : Test(futs[i]) => futs[i].audio_id \in LedgerIds(Ledger)

\* C17 as stated: a record with an empty title or player link is never
\* admitted to the store, its outcome is err with a reason containing
\* "incomplete", and in pass 1 the item is in the ledger SWEEP(1) reads.
C17_IncompleteIsErr ==
    /\ StoreComplete
    /\ (pc = "throttle" /\ LacksTitleOrPlayer(cur)) =>
           cur.status = "err" /\ cur.msg = IncompleteMsg
    /\ InLedgerForSweep1(LacksTitleOrPlayer)

\* C17 amended: such a record is never admitted to the store; its outcome is
\* err with the reason "incomplete", or skipped with "no mp3 meets filters"
\* when require_full_mp3 is set and no API result qualifies (that test comes
\* first); either way the item of pass 1 is in the ledger SWEEP(1) reads.
C17_IncompleteIsErrOrSkipped ==
    /\ StoreComplete
    /\ (pc = "throttle" /\ LacksTitleOrPlayer(cur)) =>
           \/ cur.status = "err" /\ cur.msg = IncompleteMsg
           \/ cur.status = "skipped" /\ cur.msg = NoMp3 /\ config.require_full_mp3
    /\ (pc = "throttle" /\ LacksTitleOrPlayer(cur) /\ ~config.require_full_mp3) =>
           cur.status = "err" /\ cur.msg = IncompleteMsg
    /\ InLedgerForSweep1(LacksTitleOrPlayer)

\* Pass 1 ended with an item whose page had no title: err, "incomplete", and
\* the ledger sweep 1 is about to read holds it.
C17_NoTitleInLedgerForSweep1 ==
    /\ pc = "sweep_start"
    /\ sweep = 1
    /\ \E i \in DOMAIN futs :
           /\ futs[i].status = "err"
           /\ futs[i].msg = IncompleteMsg
           /\ futs[i].parsed.Book_Title = NoneStr
           /\ futs[i].parsed.Player_Link # NoPlayer
           /\ futs[i].audio_id \in LedgerIds(Ledger)

\* The identities of the rows of a file, in row order.
IdColumn(file) == [k \in DOMAIN file.rows |-> file.rows[k].AudioBook_ID]

\* C18: a second run on unchanged upstream content, with the dataset of the
\* first run as prior dataset, leaves the dataset with the same identities,
\* one row per identity, in the same row order, whatever the order in which
\* the pool's threads complete.
C18_SecondRunKeepsDataset ==
    (run1.done /\ pc = "done") =>
        /\ Books.exists = run1.books.exists
        /\ IdColumn(Books) = IdColumn(run1.books)
        /\ \A k, l \in DOMAIN Books.rows :
               Books.rows[k].AudioBook_ID = Books.rows[l].AudioBook_ID => k = l

\* The second run ended after it stored two records again, on a dataset of
\* two rows left by the first run.
C18_SecondRunStoredTwo ==
    /\ run1.done
    /\ pc = "done"
    /\ success = 2
    /\ Len(run1.books.rows) = 2

\* C19: in pass 1 a pool thread that has finished an item takes its next item
\* only after a throttle delay since that item completed.
C19_ThrottleBeforeNextItem ==
    [][\A w \in Workers :
          (th[w].pc = "idle" /\ th'[w].pc = "run" /\ prev[w].idx # 0)
              => Throttles > prev[w].slept]_vars

\* The download elements of a response in its order, each with its item.
RECURSIVE Elements(_)
Elements(items) ==
    IF items = <<>> THEN <<>>
    ELSE [k \in 1..Len(Head(items).download) |->
             [d |-> Head(items).download[k], FileID |-> Head(items).FileID]]
         \o Elements(Tail(items))

IsMp3WithUrl(e) ==
    /\ e.d.extension \in {"mp3", "MP3"}
    /\ e.d.downloadUrl # NoneUrl
    /\ e.d.downloadUrl # <<>>

\* A URL with scheme and host.
Absolute(u) == Len(u) >= 2 /\ u[1] = "http" /\ u[2] \in {"s://player.iranseda.ir/", "s://book.iranseda.ir/"}

Parsed == pc = "probed" /\ probe.fn = "get_mp3s_from_api"

\* The entries are those of the mp3 elements that have a download URL, in order.
ApiEntriesInOrder ==
    (Parsed /\ probe.arg.status = 200 /\ probe.arg.json) =>
        LET want == SelectSeq(Elements(probe.arg.items), IsMp3WithUrl) IN
        /\ Len(probe.ret) = Len(want)
        /\ \A k \in 1..Len(want) :
               /\ probe.ret[k].attid = want[k].FileID
               /\ probe.ret[k].bitrate = want[k].d.bitRate
               /\ probe.ret[k].size \in {want[k].d.fileSize, 0}

\* C20: for a 200 response with a JSON body get_mp3s_from_api returns one entry
\* per download element that is an mp3 and has a non-empty downloadUrl, in the
\* order of the response, each with an absolute URL, and no other entry.
C20_EntriesAreMp3sInOrderAbsolute ==
    /\ ApiEntriesInOrder
    /\ (Parsed /\ probe.arg.status = 200 /\ probe.arg.json) =>
           \A k \in 1..Len(probe.ret) : Absolute(probe.ret[k].url)

\* The (identity, URL) of the rows of a ledger, in the order of the file.
ItemsOfRows(rows) == [i \in DOMAIN rows |-> [id |-> rows[i].AudioBook_ID, url |-> rows[i].URL]]

InSweep == Phase = "SWEEP" /\ pc # "sweep_start"

\* The main thread starts _process_one for an item of a sweep.
SweepItemStarts ==
    /\ pc = "sweep_loop"
    /\ th[MainThread].pc = "idle"
    /\ th'[MainThread].pc # "idle"

\* C21: a sweep takes the rows of the ledger file as it is when the sweep
\* starts, all of them and in the order of the file, and works on them one at
\* a time in the main thread: an item is started only when every row before
\* it, and no row from it on, has its outcome recorded, the throttle of the
\* previous one is over and no pool thread is running.
C21_SweepIsSerialOverLedger ==
    /\ [][(pc = "sweep_start" /\ pc' = "sweep_loop") =>
              to_retry' = ItemsOfRows(fs["errors.csv"].rows)]_vars
    /\ [](InSweep => to_retry = ItemsOfRows(ledgerRead))
    /\ [][SweepItemStarts =>
              /\ th'[MainThread].item = to_retry[pos]
              /\ cur = NoRes
              /\ \A w \in Workers : th[w].pc = "idle"
              /\ \A j \in DOMAIN to_retry :
                     (j < pos) = (outcomes[to_retry[j].id] # "none")]_vars

\* The second row of a ledger of two is being retried.
C21_SecondRowStarted ==
    /\ sweep >= 1
    /\ pc = "sweep_loop"
    /\ Len(to_retry) = 2
    /\ th[MainThread].pc = "res"
    /\ th[MainThread].item = to_retry[2]

\* req_get, called for the detail page by thread t, ends in this step.
DetailFetchEnds(t) ==
    /\ th[t].fn = "detail"
    /\ th[t].pc \in {"ret", "exc"}
    /\ th'[t] # th[t]

\* C22: when the fetch of a detail page returns a 200, its content is in the
\* cache under the item's URL by the end of that step, before anything is
\* extracted from it, and it stays there whatever outcome follows; when the
\* fetch raises or returns another status the cache is left as it was and
\* the outcome is err. Nothing else changes the cache.
C22_CachedAfterFetch ==
    /\ [][\A t \in Threads : DetailFetchEnds(t) =>
              IF th[t].pc = "ret" /\ th[t].net.status = 200
              THEN /\ th'[t].html # NoHtml
                   /\ cache' = [cache EXCEPT ![th[t].item.url] = th'[t].html]
              ELSE /\ cache' = cache
                   /\ th'[t].pc = "res"
                   /\ th'[t].res.status = "err"
                   /\ th'[t].html = NoHtml]_vars
    /\ [][cache' # cache => \E t \in Threads : DetailFetchEnds(t)]_vars
    /\ [](\A t \in Threads :
              (th[t].html # NoHtml /\ th[t].pc # "idle") =>
                  cache[th[t].item.url] = th[t].html)

\* A page fetched in this run gave an incomplete record and is in the cache.
C22_IncompleteRecordIsCached ==
    \E t \in Threads :
        /\ th[t].pc = "res"
        /\ th[t].res.status = "err"
        /\ th[t].res.msg = IncompleteMsg
        /\ th[t].html.kind = "page"
        /\ th[t].html.title = ""
        /\ cache[th[t].item.url] = th[t].html

\* The main thread takes up a skipped or err outcome.
FailureHandled == cur' # cur /\ cur'.status \in {"skipped", "err"}

\* Every row stays at its place with its identity.
KeepsIdentities(rows, rows2) ==
    \A k \in DOMAIN rows :
        k \in DOMAIN rows2 /\ rows2[k].AudioBook_ID = rows[k].AudioBook_ID

\* C23: handling a skipped or err outcome appends one entry to the ledger
\* buffer of the pass and leaves the store and every file as they were; once
\* loaded, the store keeps every record at its place unless an ok outcome for
\* the same identity replaces it, and the snapshot keeps every identity.
C23_FailuresTouchOnlyTheLedgerBuffer ==
    /\ [][FailureHandled =>
              /\ merged' = merged
              /\ fs' = fs
              /\ IF sweep = 0
                 THEN /\ pending_errors' = Append(pending_errors, LedgerRow(cur'))
                      /\ new_errors' = new_errors
                 ELSE /\ new_errors' = Append(new_errors, LedgerRow(cur'))
                      /\ pending_errors' = pending_errors]_vars
    /\ [][pc # "load" =>
              /\ KeepsIdentities(merged, merged')
              /\ \A k \in DOMAIN merged :
                     merged'[k] # merged[k] =>
                         /\ cur' # cur
                         /\ cur'.status = "ok"
                         /\ merged'[k] = cur'.parsed]_vars
    /\ [][Books.exists =>
              /\ fs'["books.csv"].exists
              /\ KeepsIdentities(Books.rows, fs'["books.csv"].rows)]_vars

\* An err outcome is handled while the store and the snapshot hold a record.
C23_ErrHandledWithRecordStored ==
    /\ pc = "throttle"
    /\ cur.status = "err"
    /\ merged # <<>>
    /\ Books.exists
    /\ Len(Books.rows) = Len(merged)

\* C24: the listing fetch treats every status as the detail fetch does: after
\* an attempt of _get the call has returned the response if and only if
\* req_get would return it (the status is none of 429, 403, 408 and no 5xx),
\* and is otherwise sleeping, retrying or, after max_attempts, raising.
C24_ListingClassifiesAsDetail ==
    (th[MainThread].fn = "listing" /\ th[MainThread].net.calls >= 1) =>
        /\ (th[MainThread].pc = "ret") = ~req_get_raises(th[MainThread].net.status)
        /\ th[MainThread].attempt <= max_attempts

\* The rows pd.read_csv finds in the ledger at the end: none without a file.
Remaining == IF Ledger.exists THEN Len(Ledger.rows) ELSE 0

\* C25: in a run that found no ledger file, at the end every identity of the
\* item list either returned ok in some pass, and is then in the store and in
\* the snapshot, or is in the ledger, never both; no identity returned ok
\* twice, and success plus the rows of the ledger is the number of items.
C25_EveryItemOkOrInLedger ==
    pc = "done" =>
        /\ okEver \cup LedgerIds(Ledger) = { pairs[i].id : i \in DOMAIN pairs }
        /\ okEver \cap LedgerIds(Ledger) = {}
        /\ okEver \subseteq SeqIds(merged)
        /\ okEver # {} => Books.exists /\ okEver \subseteq SeqIds(Books.rows)
        /\ success = Cardinality(okEver)
        /\ success + Remaining = Len(pairs)

\* After two sweeps one of two items has been stored and one is left.
C25_OneStoredOneLeft ==
    /\ pc = "done"
    /\ passes = 3
    /\ Len(pairs) = 2
    /\ success = 1
    /\ Remaining = 1

\* The identities pass 1 returned err for with an incomplete record.
IncompleteInPass1 ==
    { pending_errors[k].AudioBook_ID : k \in
        { j \in DOMAIN pending_errors : pending_errors[j].Error = IncompleteMsg } }

\* C26: an item that pass 1 fetched and found incomplete is, in every sweep,
\* processed without a fetch of its detail page, returns err with the same
\* reason, never returns ok, and is in the ledger at the end.
C26_IncompleteIsNeverRefetchedNorResolved ==
    sweep >= 1 =>
        \A id \in IncompleteInPass1 :
            /\ id \notin okEver
            /\ th[MainThread].item.id = id =>
                   /\ th[MainThread].fn # "detail"
                   /\ th[MainThread].pc = "res" =>
                          /\ th[MainThread].res.status = "err"
                          /\ th[MainThread].res.msg = IncompleteMsg
            /\ pc = "done" => id \in LedgerIds(Ledger)

====
